---------------------------- MODULE Spec2Model ----------------------------
(***************************************************************************)
(* A model of the per-building simulation of groundwork-eti:               *)
(* buildings/building.py (class Building) and the end-use asset pattern    *)
(* exercised by tests/test_stove.py (class Stove).                         *)
(*                                                                         *)
(* populate_building is modelled line by line: pc names the next line of   *)
(* populate_building to run, and an exception raised by a line stops the   *)
(* run (error holds the exception, pc stays at the line that raised it).   *)
(*                                                                         *)
(* Conventions                                                             *)
(*   - a Python list is a sequence, a dict a function, None the string     *)
(*     NoneVal; a dict key that may be absent holds Absent or Some(v),     *)
(*     and dict.get(key, default) is Get.                                  *)
(*   - a column name "a.b.c" is the tuple <<"a","b","c">> of its dotted    *)
(*     segments; str.startswith("out.<fuel>") is the match of the first    *)
(*     two segments.                                                       *)
(*   - a timestamp is its number of 15-minute slots since 2018-01-01       *)
(*     00:00; a calendar year holds SlotsPerYear slots.                    *)
(*   - amounts are integers (floating-point rounding is not modelled).     *)
(***************************************************************************)
EXTENDS Integers, Sequences, FiniteSets, TLC

VARIABLES
    building_params,        \* Building.building_params (the configuration dict)
    sim_settings,           \* Building._sim_settings
    pc,                     \* the next line of populate_building to run
    error,                  \* the exception that ended populate_building, or NoneVal
    years_vec,              \* Building.years_vec
    building_id,            \* Building.building_id
    retrofit_scenario,      \* Building.retrofit_scenario
    end_uses,               \* Building.end_uses
    baseline_consumption,   \* Building.baseline_consumption
    retrofit_consumption,   \* Building.retrofit_consumption
    retrofit_vec,           \* Building._retrofit_vec
    is_retrofit_vec,        \* Building._is_retrofit_vec
    annual_energy_by_fuel,  \* Building._annual_energy_by_fuel
    building_annual_costs_other, \* Building._building_annual_costs_other
    fuel_type,              \* Building._fuel_type
    methane_leaks,          \* Building._methane_leaks
    combustion_emissions,   \* Building._combustion_emissions
    consump_rates,          \* the rate table last read by calc_building_utility_costs
    utility_costs,          \* the last return value of calc_building_utility_costs
    factor_tables,          \* the module-level dicts EMISSION_FACTORS, METHANE_LEAKS
    outputs,                \* the files of ./outputs/, by building id and name
    stove,                  \* a Stove end use: its years_vec, _kwargs and fields
    stove_last              \* the Stove method that ran last ("" after __init__)

bvars == <<building_params, sim_settings, pc, error, years_vec, building_id,
           retrofit_scenario, end_uses, baseline_consumption,
           retrofit_consumption, retrofit_vec, is_retrofit_vec,
           annual_energy_by_fuel, building_annual_costs_other, fuel_type,
           methane_leaks, combustion_emissions, consump_rates, utility_costs,
           factor_tables, outputs>>

svars == <<stove, stove_last>>

vars == <<bvars, svars>>

-----------------------------------------------------------------------------
(* Bounds of the model *)

\* The earliest sim_start_year drawn.
FirstSimYear == 2022

\* sim_start_year ranges over FirstSimYear .. FirstSimYear + StartSpan.
StartSpan == 2

\* The longest simulation horizon (sim_end_year - sim_start_year).
MaxLen == 3

\* 15-minute slots per calendar year (35040 in the program's calendar).
SlotsPerYear == 2

-----------------------------------------------------------------------------
(* Python helpers *)

NoneVal == "None"

\* A dict key that may be absent holds Absent or Some(value)
Absent == <<>>

Some(value) == <<value>>

\* dict.get(key, default)
Get(opt, default) == IF opt = Absent THEN default ELSE opt[1]

Max(a, b) == IF a >= b THEN a ELSE b

Min(a, b) == IF a <= b THEN a ELSE b

RECURSIVE SumSeq(_)
SumSeq(s) == IF s = <<>> THEN 0 ELSE Head(s) + SumSeq(Tail(s))

\* list(range(a, b))
Range(a, b) == [i \in 1..Max(b - a, 0) |-> a + i - 1]

\* str.lower() on the size categories a configuration uses
Lower(s) ==
    CASE s = "Large"  -> "large"
      [] s = "LARGE"  -> "large"
      [] s = "Medium" -> "medium"
      [] s = "Small"  -> "small"
      [] OTHER        -> s

\* str.upper() on the end-use names
Upper(s) ==
    CASE s = "stove"              -> "STOVE"
      [] s = "clothes_dryer"      -> "CLOTHES_DRYER"
      [] s = "domestic_hot_water" -> "DOMESTIC_HOT_WATER"
      [] s = "hvac"               -> "HVAC"
      [] OTHER                    -> s

-----------------------------------------------------------------------------
(* Module-level tables of building.py *)

Fuels == <<"electricity", "natural_gas", "propane", "fuel_oil">>

FuelSet == {Fuels[i] : i \in 1..Len(Fuels)}

OutCol(fuel, use) == <<"out", fuel, use, "energy_consumption">>

CUSTOM_RESSTOCK_MAPPING ==
    (<<"elec", "clothes_dryer">>  :> OutCol("electricity", "clothes_dryer")) @@
    (<<"elec", "cooking">>        :> OutCol("electricity", "range_oven")) @@
    (<<"elec", "cooling">>        :> OutCol("electricity", "cooling")) @@
    (<<"elec", "heating">>        :> OutCol("electricity", "heating")) @@
    (<<"elec", "heating_backup">> :> OutCol("electricity", "heating_hp_bkup")) @@
    (<<"elec", "hot_water">>      :> OutCol("electricity", "hot_water")) @@
    (<<"elec", "other">>          :> OutCol("electricity", "other")) @@
    (<<"elec", "ev">>             :> OutCol("electricity", "ev")) @@
    (<<"fuel", "clothes_dryer">>  :> OutCol("fuel_oil", "clothes_dryer")) @@
    (<<"fuel", "cooking">>        :> <<"out", "fuel_oil", "range_oven", "energy_consumpy">>) @@
    (<<"fuel", "heating">>        :> OutCol("fuel_oil", "heating")) @@
    (<<"fuel", "heating_backup">> :> OutCol("fuel_oil", "heating_hp_bkup")) @@
    (<<"fuel", "hot_water">>      :> OutCol("fuel_oil", "hot_water")) @@
    (<<"oil", "heating">>         :> OutCol("fuel_oil", "heating")) @@
    (<<"oil", "heating_backup">>  :> OutCol("fuel_oil", "heating_hp_bkup")) @@
    (<<"oil", "hot_water">>       :> OutCol("fuel_oil", "hot_water")) @@
    (<<"gas", "clothes_dryer">>   :> OutCol("natural_gas", "clothes_dryer")) @@
    (<<"gas", "cooking">>         :> OutCol("natural_gas", "range_oven")) @@
    (<<"gas", "heating">>         :> OutCol("natural_gas", "heating")) @@
    (<<"gas", "heating_backup">>  :> OutCol("natural_gas", "heating_hp_bkup")) @@
    (<<"gas", "hot_water">>       :> OutCol("natural_gas", "hot_water")) @@
    (<<"lpg", "clothes_dryer">>   :> OutCol("propane", "clothes_dryer")) @@
    (<<"lpg", "cooking">>         :> OutCol("propane", "range_oven")) @@
    (<<"lpg", "heating">>         :> OutCol("propane", "heating")) @@
    (<<"lpg", "heating_backup">>  :> OutCol("propane", "heating_hp_bkup")) @@
    (<<"lpg", "hot_water">>       :> OutCol("propane", "hot_water"))

METHANE_LEAKS == ("GAS" :> 2) @@ ("HPL" :> 1)

\* fuel_mappings of _get_fuel_type_vec; dict.get of a fuel it does not list is None
FuelMappings(fuel) ==
    CASE fuel = "natural_gas" -> "GAS"
      [] fuel = "fuel_oil"    -> "OIL"
      [] fuel = "electricity" -> "ELEC"
      [] fuel = "propane"     -> "LPG"
      [] fuel = "hybrid_gas"  -> "HPL"
      [] fuel = "hybrid_npa"  -> "NPH"
      [] OTHER                -> NoneVal


-----------------------------------------------------------------------------
(* Consumption tables (pandas DataFrames with a DatetimeIndex) *)

\* pd.DataFrame(): no rows, no columns
EmptyFrame == [stamps |-> <<>>, cols |-> [c \in {} |-> <<>>]]

\* The first year of the calendar the slots are counted from.
EpochYear == 2018

\* The calendar year of a timestamp
YearOf(stamp) == EpochYear + (stamp \div SlotsPerYear)

\* The consumption files a configuration may name, as read by pd.read_csv and
\* set_index("timestamp"): interval-ending stamps, source column names.
ConsumpFiles ==
    ("reference_gas.csv" :>
        [stamps |-> <<1, 2>>,
         cols   |-> (<<"gas", "heating">> :> <<10, 3>>) @@
                    (<<"gas", "cooking">> :> <<2, 1>>) @@
                    (<<"elec", "other">>  :> <<0, 7>>) @@
                    (<<"site", "temperature">> :> <<5, 5>>)]) @@
    ("retrofit_elec.csv" :>
        [stamps |-> <<1, 2>>,
         cols   |-> (<<"elec", "heating">> :> <<4, 1>>) @@
                    (<<"elec", "cooking">> :> <<1, 1>>) @@
                    (<<"elec", "other">>   :> <<0, 7>>) @@
                    (<<"fuel", "cooking">> :> <<0, 1>>)]) @@
    ("retrofit_hybrid.csv" :>
        [stamps |-> <<0, 1, 2>>,
         cols   |-> (<<"elec", "heating">>       :> <<3, 2, 1>>) @@
                    (<<"gas", "heating_backup">> :> <<1, 2, 0>>) @@
                    (<<"lpg", "hot_water">>      :> <<0, 1, 1>>)])

\* DataFrame.rename(mapper=CUSTOM_RESSTOCK_MAPPING, axis=1) on one column name
Rename(col) ==
    IF col \in DOMAIN CUSTOM_RESSTOCK_MAPPING
    THEN CUSTOM_RESSTOCK_MAPPING[col] ELSE col

LoadCustomEnergy(path) ==
    LET raw     == ConsumpFiles[path]
        shifted == [r \in 1..Len(raw.stamps) |-> raw.stamps[r] - 1]
        names   == {Rename(c) : c \in DOMAIN raw.cols}
    IN  [stamps |-> shifted,
         cols   |-> [n \in names |->
                        raw.cols[CHOOSE c \in DOMAIN raw.cols : Rename(c) = n]]]

\* frame[numeric columns] *= factor
Scaled(frame, factor) ==
    [frame EXCEPT !.cols =
        [n \in DOMAIN frame.cols |->
            [r \in 1..Len(frame.cols[n]) |-> frame.cols[n][r] * factor]]]

\* col.startswith("out.{}".format(fuel))
StartsWithOutFuel(col, fuel) ==
    /\ Len(col) >= 2
    /\ col[1] = "out"
    /\ col[2] = fuel

FilterCols(frame, fuel) ==
    {col \in DOMAIN frame.cols : StartsWithOutFuel(col, fuel)}

RECURSIVE SumOver(_, _, _)
\* the sum of row r over the columns named in names
SumOver(frame, names, r) ==
    IF names = {} THEN 0
    ELSE LET n == CHOOSE x \in names : TRUE
         IN  frame.cols[n][r] + SumOver(frame, names \ {n}, r)

\* frame[names].sum(axis=1)
RowSum(frame, names) ==
    [r \in 1..Len(frame.stamps) |-> SumOver(frame, names, r)]

\* frame[name] = series
WithCol(frame, name, series) ==
    [frame EXCEPT !.cols =
        [n \in (DOMAIN frame.cols) \cup {name} |->
            IF n = name THEN series ELSE frame.cols[n]]]

TotalCol(fuel) == <<"out", fuel, "total", "energy_consumption">>

GrandTotalCol == <<"out", "total", "energy_consumption">>

RECURSIVE FuelTotals(_, _)
\* the loop "for fuel in [...]" of _calc_total_custom_*: fuels k..4 in order
FuelTotals(frame, k) ==
    IF k > Len(Fuels) THEN frame
    ELSE FuelTotals(
            WithCol(frame, TotalCol(Fuels[k]),
                    RowSum(frame, FilterCols(frame, Fuels[k]))),
            k + 1)
\* A variant of _calc_total_custom_* whose grand total leaves fuel_oil out
CalcTotalCustom_ThreeFuels(frame) ==
    LET withFuels == FuelTotals(frame, 1)
    IN  WithCol(withFuels, GrandTotalCol,
                RowSum(withFuels, {TotalCol(Fuels[i]) : i \in 1..(Len(Fuels) - 1)}))

\* _calc_total_custom_baseline and _calc_total_custom_retrofit (the same code
\* on the two tables)
CalcTotalCustom(frame) ==
    LET withFuels == FuelTotals(frame, 1)
    IN  WithCol(withFuels, GrandTotalCol,
                RowSum(withFuels, {TotalCol(Fuels[i]) : i \in 1..Len(Fuels)}))

HasCol(frame, name) == name \in DOMAIN frame.cols

\* series.resample("AS").sum().values[0]: the sum of the rows of the earliest
\* calendar year of the index
AnnualFirst(frame, name) ==
    LET yrs   == {YearOf(frame.stamps[r]) : r \in 1..Len(frame.stamps)}
        first == CHOOSE y \in yrs : \A z \in yrs : y <= z
        rows  == {r \in 1..Len(frame.stamps) : YearOf(frame.stamps[r]) = first}
    IN  SumSeq([r \in 1..Len(frame.stamps) |->
                   IF r \in rows THEN frame.cols[name][r] ELSE 0])


-----------------------------------------------------------------------------
(* The methods of Building, as functions of the fields they read *)

\* The year _get_replacement_vec compares with: dict.get("retrofit_year",
\* years_vec[-1]). Evaluated only where years_vec is not empty.
ReplacementYear(params, years) ==
    Get(params.retrofit_year, years[Len(years)])
\* A variant of _get_replacement_vec that marks every year from the retrofit
\* year on (">=" for "==")
GetReplacementVec_FromYearOn(params, years) ==
    [i \in 1..Len(years) |-> years[i] >= ReplacementYear(params, years)]

\* _get_replacement_vec, for a years_vec that is not empty
GetReplacementVec(params, years) ==
    [i \in 1..Len(years) |-> years[i] = ReplacementYear(params, years)]

\* max(vec[:i]) of a list of booleans that is not empty
MaxPrefix(vec, i) == \E j \in 1..i : vec[j]
\* A variant of _get_is_retrofit_vec without the running maximum
GetIsRetrofitVec_NoRunningMax(rvec) ==
    [i \in 1..Len(rvec) |-> rvec[i]]

\* _get_is_retrofit_vec
GetIsRetrofitVec(rvec) ==
    [i \in 1..Len(rvec) |-> MaxPrefix(rvec, i)]

\* The series _calc_annual_energy_consump and calc_building_utility_costs read
\* for one year: the retrofit table's per-fuel total if replaced, else the
\* baseline table's
AnnualUse(base, retro, fuel, replaced) ==
    AnnualFirst(IF replaced THEN retro ELSE base, TotalCol(fuel))

\* _calc_annual_energy_consump, where both tables hold the per-fuel totals
CalcAnnualEnergyConsump(base, retro, isvec) ==
    [fuel \in FuelSet |->
        [i \in 1..Len(isvec) |-> AnnualUse(base, retro, fuel, isvec[i])]]

\* The frames _calc_annual_energy_consump indexes raise KeyError when a year
\* reads a table without the per-fuel total columns
AnnualEnergyKeyError(base, retro, isvec) ==
    \E i \in 1..Len(isvec) : \E fuel \in FuelSet :
        ~HasCol(IF isvec[i] THEN retro ELSE base, TotalCol(fuel))

\* retrofit_adders.get(retrofit_size.lower(), 0)
RetrofitAdder(params) ==
    LET costs  == Get(params.building_level_costs, [retrofit_adder |-> Absent])
        adders == Get(costs.retrofit_adder, [k \in {} |-> 0])
        size   == Lower(Get(params.retrofit_size, ""))
    IN  IF size \in DOMAIN adders THEN adders[size] ELSE 0
\* A variant of _calc_building_costs that charges the adder in every year from
\* the retrofit on
CalcBuildingCosts_EveryYearAfter(params, rvec) ==
    [i \in 1..Len(rvec) |-> IF MaxPrefix(rvec, i) THEN RetrofitAdder(params) ELSE 0]

\* _calc_building_costs: np.multiply(retrofit_adder, retrofit_vec).tolist()
CalcBuildingCosts(params, rvec) ==
    [i \in 1..Len(rvec) |-> IF rvec[i] THEN RetrofitAdder(params) ELSE 0]

\* _get_fuel_type_vec
GetFuelTypeVec(params, isvec) ==
    [i \in 1..Len(isvec) |->
        IF isvec[i] THEN FuelMappings(Get(params.retrofit_fuel_type, NoneVal))
        ELSE FuelMappings(Get(params.original_fuel_type, NoneVal))]

\* _get_methane_leaks
GetMethaneLeaks(ftype) ==
    [i \in 1..Len(ftype) |->
        IF ftype[i] \in DOMAIN factor_tables.METHANE_LEAKS
        THEN factor_tables.METHANE_LEAKS[ftype[i]] ELSE 0]


\* The year from which the electricity factor decays (line 444)
DecayFromYear == 2024

\* An emission factor: EMISSION_FACTORS[base] * 0.97^decays, or 0.0 when zero
\* (np.zeros); the map from (base, decays) to the number is one-to-one
ConstFactor(fuel) == [base |-> fuel, decays |-> 0, zero |-> FALSE]

ZeroFactor(fuel) == [base |-> fuel, decays |-> 0, zero |-> TRUE]

\* factor * (1 - 0.03)
Decayed(f) == IF f.zero THEN f ELSE [f EXCEPT !.decays = @ + 1]

\* The dict EMISSION_FACTORS as the module defines it
EMISSION_FACTORS ==
    [fuel \in {"natural_gas", "electricity", "fuel_oil", "propane",
               "hybrid_gas", "hybrid_npa"} |-> ConstFactor(fuel)]

\* EMISSION_FACTORS.get(fuel, 0)
EmissionFactorOf(fuel) ==
    IF fuel \in DOMAIN factor_tables.EMISSION_FACTORS
    THEN factor_tables.EMISSION_FACTORS[fuel] ELSE ZeroFactor(fuel)

RECURSIVE ElecFactors(_, _, _)
\* The loop of lines 442-448 from index i on (1-based), on the array so far;
\* emissions_factor[i-1] at the first index is numpy's emissions_factor[-1],
\* the last slot of the array
ElecFactors(years, arr, i) ==
    IF i > Len(years) THEN arr
    ELSE LET prev == IF i = 1 THEN arr[Len(arr)] ELSE arr[i - 1]
             new  == IF years[i] < DecayFromYear
                     THEN EmissionFactorOf("electricity")
                     ELSE Decayed(prev)
         IN  ElecFactors(years, [arr EXCEPT ![i] = new], i + 1)

\* The emission factor _get_combustion_emissions uses for a fuel at index i
EmissionsFactor(years, fuel, i) ==
    IF fuel = "electricity"
    THEN ElecFactors(years,
                     [k \in 1..Len(years) |-> ZeroFactor("electricity")], 1)[i]
    ELSE EmissionFactorOf(fuel)

\* _get_combustion_emissions: entry i is the product energy * factor, kept as
\* the pair of its factors. np.array(consump) * factor broadcasts a scalar
\* factor and needs equal lengths for the electricity array
GetCombustionEmissions(years, energy) ==
    [fuel \in FuelSet |->
        [i \in 1..Len(energy[fuel]) |->
            [energy |-> energy[fuel][i],
             factor |-> EmissionsFactor(years, fuel, i)]]]

-----------------------------------------------------------------------------
(* Cost tables read by _create_end_uses: building_id -> END_USE -> cost *)

CostsOriginal ==
    ("bldg_1" :> (("STOVE" :> 750) @@ ("HVAC" :> 5000)))

CostsRetrofit ==
    ("bldg_1" :> ("STOVE" :> 1000))

\* dict.get(key) of a cost row: the cost, or None
CostOf(row, key) == IF key \in DOMAIN row THEN Some(row[key]) ELSE Absent

\* _get_single_end_use: the asset built for a known end use, None otherwise.
\* The asset is kept as the parameters it was constructed with.
GetSingleEndUse(params) ==
    IF params.end_use \in {"stove", "clothes_dryer", "domestic_hot_water", "hvac"}
    THEN Some(params) ELSE Absent

\* The outcomes of initialize_end_use on an asset that was handed a None
\* cost. The asset classes are not part of this source tree: the call either
\* returns or raises on the arithmetic with None.
NoneCostOutcomes == {"returns", "TypeError"}

\* initialize_end_use raises: the asset is of a known end use, one of the two
\* costs it was constructed with is None, and the outcome drawn is the raise
InitializeEndUseRaises(params, outcome) ==
    /\ GetSingleEndUse(params) # Absent
    /\ \/ params.existing_install_cost = Absent
       \/ params.replacement_cost = Absent
    /\ outcome = "TypeError"

RECURSIVE CreateLoop(_, _, _, _, _, _)
\* The loop of lines 208-214 from end use k on: the end-use parameter dicts
\* (which the loop writes the costs into), the end_uses built so far, and the
\* exception that ended it, if any
CreateLoop(eparams, built, rowOrig, rowRetro, k, outcome) ==
    IF k > Len(eparams)
    THEN [end_use_params |-> eparams, end_uses |-> built, error |-> NoneVal]
    ELSE IF rowOrig = Absent
    THEN [end_use_params |-> eparams, end_uses |-> built,
          error |-> "AttributeError"]
    ELSE LET type == eparams[k].end_use
             p1   == [eparams EXCEPT ![k].existing_install_cost =
                         CostOf(rowOrig[1], Upper(type))]
         IN  IF rowRetro = Absent
             THEN [end_use_params |-> p1, end_uses |-> built,
                   error |-> "AttributeError"]
             ELSE LET p2 == [p1 EXCEPT ![k].replacement_cost =
                                CostOf(rowRetro[1], Upper(type))]
                      b2 == [t \in (DOMAIN built) \cup {type} |->
                                IF t = type THEN GetSingleEndUse(p2[k])
                                ELSE built[t]]
                  IN  IF InitializeEndUseRaises(p2[k], outcome)
                      THEN [end_use_params |-> p2, end_uses |-> built,
                            error |-> "TypeError"]
                      ELSE CreateLoop(p2, b2, rowOrig, rowRetro, k + 1,
                                      outcome)

\* costs.get(building_id): the building's row of a cost table, or None
CostRow(table, id) == IF id \in DOMAIN table THEN Some(table[id]) ELSE Absent


-----------------------------------------------------------------------------
(* populate_building, one action per line (lines 122-135) *)

\* A variant of populate_building that computes is_retrofit_vec before
\* retrofit_vec
Stages_IsRetrofitVecFirst ==
    <<"get_years_vec", "get_building_id", "get_retrofit_scenario",
      "get_building_energies", "create_end_uses",
      "calc_total_energy_baseline", "calc_total_energy_retrofit",
      "get_is_retrofit_vec", "get_replacement_vec",
      "calc_annual_energy_consump", "calc_building_costs",
      "get_fuel_type_vec", "get_methane_leaks", "get_combustion_emissions",
      "populated">>

\* The lines of populate_building in order, then "populated": it has returned
Stages == <<"get_years_vec",
            "get_building_id",
            "get_retrofit_scenario",
            "get_building_energies",
            "create_end_uses",
            "calc_total_energy_baseline",
            "calc_total_energy_retrofit",
            "get_replacement_vec",
            "get_is_retrofit_vec",
            "calc_annual_energy_consump",
            "calc_building_costs",
            "get_fuel_type_vec",
            "get_methane_leaks",
            "get_combustion_emissions",
            "populated">>

StageNo(stage) == CHOOSE i \in 1..Len(Stages) : Stages[i] = stage

\* The line named stage has run to its end
Ran(stage) == StageNo(pc) > StageNo(stage)

\* pc is at the line named stage and no exception has ended the run
At(stage) == pc = stage /\ error = NoneVal

\* The line returns and the next one is up
Advance == pc' = Stages[StageNo(pc) + 1] /\ error' = error

\* The line raises: populate_building ends there
Raise(exc) == pc' = pc /\ error' = exc

\* line 122: _get_years_vec
GetYearsVec ==
    /\ At("get_years_vec")
    /\ years_vec' = Range(sim_settings.sim_start_year, sim_settings.sim_end_year)
    /\ Advance
    /\ UNCHANGED <<factor_tables, outputs, stove, stove_last, building_params, sim_settings, building_id,
                   retrofit_scenario, end_uses, baseline_consumption,
                   retrofit_consumption, retrofit_vec, is_retrofit_vec,
                   annual_energy_by_fuel, building_annual_costs_other,
                   fuel_type, methane_leaks, combustion_emissions,
                   consump_rates, utility_costs>>

\* line 123: _get_building_id
GetBuildingId ==
    /\ At("get_building_id")
    /\ building_id' = building_params.building_id
    /\ Advance
    /\ UNCHANGED <<factor_tables, outputs, stove, stove_last, building_params, sim_settings, years_vec,
                   retrofit_scenario, end_uses, baseline_consumption,
                   retrofit_consumption, retrofit_vec, is_retrofit_vec,
                   annual_energy_by_fuel, building_annual_costs_other,
                   fuel_type, methane_leaks, combustion_emissions,
                   consump_rates, utility_costs>>

\* line 124: _get_retrofit_scenario
GetRetrofitScenario ==
    /\ At("get_retrofit_scenario")
    /\ retrofit_scenario' = sim_settings.decarb_scenario
    /\ Advance
    /\ UNCHANGED <<factor_tables, outputs, stove, stove_last, building_params, sim_settings, years_vec, building_id,
                   end_uses, baseline_consumption, retrofit_consumption,
                   retrofit_vec, is_retrofit_vec, annual_energy_by_fuel,
                   building_annual_costs_other, fuel_type, methane_leaks,
                   combustion_emissions, consump_rates, utility_costs>>

\* line 125: _get_building_energies (and _get_custom_building_energies)
GetBuildingEnergies ==
    /\ At("get_building_energies")
    /\ IF building_params.resstock_overwrite
       THEN LET factor == Get(building_params.load_scaling_factor, 1)
            IN  /\ baseline_consumption' = Scaled(
                       LoadCustomEnergy(building_params.reference_consump_filepath),
                       factor)
                /\ retrofit_consumption' = Scaled(
                       LoadCustomEnergy(building_params.retrofit_consump_filepath),
                       factor)
       ELSE UNCHANGED <<baseline_consumption, retrofit_consumption>>
    /\ Advance
    /\ UNCHANGED <<factor_tables, outputs, stove, stove_last, building_params, sim_settings, years_vec, building_id,
                   retrofit_scenario, end_uses, retrofit_vec, is_retrofit_vec,
                   annual_energy_by_fuel, building_annual_costs_other,
                   fuel_type, methane_leaks, combustion_emissions,
                   consump_rates, utility_costs>>

\* line 126: _create_end_uses
CreateEndUses ==
    /\ At("create_end_uses")
    /\ \E outcome \in NoneCostOutcomes :
       LET res == CreateLoop(building_params.end_uses, end_uses,
                             CostRow(CostsOriginal, building_id),
                             CostRow(CostsRetrofit, building_id), 1, outcome)
       IN  /\ building_params' =
                  [building_params EXCEPT !.end_uses = res.end_use_params]
           /\ end_uses' = res.end_uses
           /\ IF res.error = NoneVal THEN Advance ELSE Raise(res.error)
    /\ UNCHANGED <<factor_tables, outputs, stove, stove_last, sim_settings, years_vec, building_id, retrofit_scenario,
                   baseline_consumption, retrofit_consumption, retrofit_vec,
                   is_retrofit_vec, annual_energy_by_fuel,
                   building_annual_costs_other, fuel_type, methane_leaks,
                   combustion_emissions, consump_rates, utility_costs>>

\* line 127: _calc_total_energy_baseline
CalcTotalEnergyBaseline ==
    /\ At("calc_total_energy_baseline")
    /\ baseline_consumption' =
           IF building_params.resstock_overwrite
           THEN CalcTotalCustom(baseline_consumption)
           ELSE baseline_consumption
    /\ Advance
    /\ UNCHANGED <<factor_tables, outputs, stove, stove_last, building_params, sim_settings, years_vec, building_id,
                   retrofit_scenario, end_uses, retrofit_consumption,
                   retrofit_vec, is_retrofit_vec, annual_energy_by_fuel,
                   building_annual_costs_other, fuel_type, methane_leaks,
                   combustion_emissions, consump_rates, utility_costs>>

\* line 128: _calc_total_energy_retrofit
CalcTotalEnergyRetrofit ==
    /\ At("calc_total_energy_retrofit")
    /\ retrofit_consumption' =
           IF building_params.resstock_overwrite
           THEN CalcTotalCustom(retrofit_consumption)
           ELSE retrofit_consumption
    /\ Advance
    /\ UNCHANGED <<factor_tables, outputs, stove, stove_last, building_params, sim_settings, years_vec, building_id,
                   retrofit_scenario, end_uses, baseline_consumption,
                   retrofit_vec, is_retrofit_vec, annual_energy_by_fuel,
                   building_annual_costs_other, fuel_type, methane_leaks,
                   combustion_emissions, consump_rates, utility_costs>>

\* line 129: _get_replacement_vec; years_vec[-1] of an empty list raises
GetReplacementVecStep ==
    /\ At("get_replacement_vec")
    /\ IF years_vec = <<>>
       THEN Raise("IndexError") /\ UNCHANGED retrofit_vec
       ELSE retrofit_vec' = GetReplacementVec(building_params, years_vec)
            /\ Advance
    /\ UNCHANGED <<factor_tables, outputs, stove, stove_last, building_params, sim_settings, years_vec, building_id,
                   retrofit_scenario, end_uses, baseline_consumption,
                   retrofit_consumption, is_retrofit_vec,
                   annual_energy_by_fuel, building_annual_costs_other,
                   fuel_type, methane_leaks, combustion_emissions,
                   consump_rates, utility_costs>>

\* line 130: _get_is_retrofit_vec
GetIsRetrofitVecStep ==
    /\ At("get_is_retrofit_vec")
    /\ is_retrofit_vec' = GetIsRetrofitVec(retrofit_vec)
    /\ Advance
    /\ UNCHANGED <<factor_tables, outputs, stove, stove_last, building_params, sim_settings, years_vec, building_id,
                   retrofit_scenario, end_uses, baseline_consumption,
                   retrofit_consumption, retrofit_vec, annual_energy_by_fuel,
                   building_annual_costs_other, fuel_type, methane_leaks,
                   combustion_emissions, consump_rates, utility_costs>>

\* line 131: _calc_annual_energy_consump
CalcAnnualEnergyConsumpStep ==
    /\ At("calc_annual_energy_consump")
    /\ IF AnnualEnergyKeyError(baseline_consumption, retrofit_consumption,
                               is_retrofit_vec)
       THEN Raise("KeyError") /\ UNCHANGED annual_energy_by_fuel
       ELSE annual_energy_by_fuel' =
                CalcAnnualEnergyConsump(baseline_consumption,
                                        retrofit_consumption, is_retrofit_vec)
            /\ Advance
    /\ UNCHANGED <<factor_tables, outputs, stove, stove_last, building_params, sim_settings, years_vec, building_id,
                   retrofit_scenario, end_uses, baseline_consumption,
                   retrofit_consumption, retrofit_vec, is_retrofit_vec,
                   building_annual_costs_other, fuel_type, methane_leaks,
                   combustion_emissions, consump_rates, utility_costs>>

\* line 132: _calc_building_costs
CalcBuildingCostsStep ==
    /\ At("calc_building_costs")
    /\ building_annual_costs_other' =
           CalcBuildingCosts(building_params, retrofit_vec)
    /\ Advance
    /\ UNCHANGED <<factor_tables, outputs, stove, stove_last, building_params, sim_settings, years_vec, building_id,
                   retrofit_scenario, end_uses, baseline_consumption,
                   retrofit_consumption, retrofit_vec, is_retrofit_vec,
                   annual_energy_by_fuel, fuel_type, methane_leaks,
                   combustion_emissions, consump_rates, utility_costs>>

\* line 133: _get_fuel_type_vec
GetFuelTypeVecStep ==
    /\ At("get_fuel_type_vec")
    /\ fuel_type' = GetFuelTypeVec(building_params, is_retrofit_vec)
    /\ Advance
    /\ UNCHANGED <<factor_tables, outputs, stove, stove_last, building_params, sim_settings, years_vec, building_id,
                   retrofit_scenario, end_uses, baseline_consumption,
                   retrofit_consumption, retrofit_vec, is_retrofit_vec,
                   annual_energy_by_fuel, building_annual_costs_other,
                   methane_leaks, combustion_emissions, consump_rates,
                   utility_costs>>

\* line 134: _get_methane_leaks
GetMethaneLeaksStep ==
    /\ At("get_methane_leaks")
    /\ methane_leaks' = GetMethaneLeaks(fuel_type)
    /\ Advance
    /\ UNCHANGED <<factor_tables, outputs, stove, stove_last, building_params, sim_settings, years_vec, building_id,
                   retrofit_scenario, end_uses, baseline_consumption,
                   retrofit_consumption, retrofit_vec, is_retrofit_vec,
                   annual_energy_by_fuel, building_annual_costs_other,
                   fuel_type, combustion_emissions, consump_rates,
                   utility_costs>>

\* line 135: _get_combustion_emissions
GetCombustionEmissionsStep ==
    /\ At("get_combustion_emissions")
    /\ combustion_emissions' =
           GetCombustionEmissions(years_vec, annual_energy_by_fuel)
    /\ Advance
    /\ UNCHANGED <<factor_tables, outputs, stove, stove_last, building_params, sim_settings, years_vec, building_id,
                   retrofit_scenario, end_uses, baseline_consumption,
                   retrofit_consumption, retrofit_vec, is_retrofit_vec,
                   annual_energy_by_fuel, building_annual_costs_other,
                   fuel_type, methane_leaks, consump_rates, utility_costs>>

-----------------------------------------------------------------------------
(* calc_building_utility_costs *)

\* The rate table a run may find at consump_costs_filepath: one column per
\* fuel, rows rows; pd.read_csv(..., index_col=0)[fuel].to_list()
RateTable(rows) ==
    [fuel \in FuelSet |->
        [i \in 1..rows |-> i + (CHOOSE k \in 1..Len(Fuels) : Fuels[k] = fuel)]]

\* zip(is_retrofit_vec, rates): pairs up to the shorter of the two
ZipLen(isvec, rates) == Min(Len(isvec), Len(rates))
\* A variant of calc_building_utility_costs that prices every year with the
\* first row of the rate table
UtilityCosts_FirstRate(base, retro, isvec, rates) ==
    [fuel \in FuelSet |->
        [i \in 1..ZipLen(isvec, rates[fuel]) |->
            AnnualUse(base, retro, fuel, isvec[i]) * rates[fuel][1]]]

\* The body of calc_building_utility_costs for one rate table
UtilityCosts(base, retro, isvec, rates) ==
    [fuel \in FuelSet |->
        [i \in 1..ZipLen(isvec, rates[fuel]) |->
            AnnualUse(base, retro, fuel, isvec[i]) * rates[fuel][i]]]

\* calc_building_utility_costs, called on a populated building
CalcBuildingUtilityCosts ==
    /\ At("populated")
    /\ \E rows \in 0..(MaxLen + 1) :
          /\ consump_rates' = RateTable(rows)
          /\ utility_costs' = UtilityCosts(baseline_consumption,
                                           retrofit_consumption,
                                           is_retrofit_vec, RateTable(rows))
    /\ UNCHANGED <<factor_tables, outputs, stove, stove_last, building_params, sim_settings, pc, error, years_vec,
                   building_id, retrofit_scenario, end_uses,
                   baseline_consumption, retrofit_consumption, retrofit_vec,
                   is_retrofit_vec, annual_energy_by_fuel,
                   building_annual_costs_other, fuel_type, methane_leaks,
                   combustion_emissions>>

-----------------------------------------------------------------------------
(* write_building_energy_info and write_building_cost_info *)

\* The frequencies (minutes) write_building_energy_info is called with; 60 is
\* the default
Freqs == {10, 60}

\* The 15-minute slots of one bin of resample("{freq}T"), freq raised to 15
\* when it is below
SlotsPerBin(freq) == (IF freq < 15 THEN 15 ELSE freq) \div 15

\* frame.resample("{freq}T").sum(): one row per bin from the first to the last
\* stamp, each the column sums of the rows that fall in the bin
Resample(frame, freq) ==
    IF frame.stamps = <<>> THEN frame
    ELSE LET n    == SlotsPerBin(freq)
             rws  == 1..Len(frame.stamps)
             bins == {frame.stamps[r] \div n : r \in rws}
             lo   == CHOOSE b \in bins : \A c \in bins : b <= c
             hi   == CHOOSE b \in bins : \A c \in bins : b >= c
         IN  [stamps |-> [k \in 1..(hi - lo + 1) |-> (lo + k - 1) * n],
              cols   |-> [c \in DOMAIN frame.cols |->
                            [k \in 1..(hi - lo + 1) |->
                                SumSeq([r \in rws |->
                                    IF frame.stamps[r] \div n = lo + k - 1
                                    THEN frame.cols[c][r] ELSE 0])]]]

\* "./outputs/{}_{name}".format(building_id)
OutputPath(id, name) == <<id, name>>

\* to_csv: the file at path holds content, the other files stay
ToCsv(files, path, content) ==
    [q \in (DOMAIN files) \cup {path} |->
        IF q = path THEN content ELSE files[q]]

\* A variant of write_building_energy_info that resamples the two tables of
\* the building in place
WriteBuildingEnergyInfo_InPlace ==
    /\ At("populated")
    /\ \E freq \in Freqs :
          /\ baseline_consumption' = Resample(baseline_consumption, freq)
          /\ retrofit_consumption' = Resample(retrofit_consumption, freq)
          /\ outputs' =
                ToCsv(ToCsv(outputs,
                            OutputPath(building_id, "baseline_consump.csv"),
                            Resample(baseline_consumption, freq)),
                      OutputPath(building_id, "retrofit_consump.csv"),
                      Resample(retrofit_consumption, freq))
    /\ UNCHANGED <<factor_tables, stove, stove_last, building_params,
                   sim_settings, pc, error, years_vec, building_id,
                   retrofit_scenario, end_uses, retrofit_vec, is_retrofit_vec,
                   annual_energy_by_fuel, building_annual_costs_other,
                   fuel_type, methane_leaks, combustion_emissions,
                   consump_rates, utility_costs>>

\* write_building_energy_info, called on a populated building
WriteBuildingEnergyInfo ==
    /\ At("populated")
    /\ \E freq \in Freqs :
          outputs' =
              ToCsv(ToCsv(outputs,
                          OutputPath(building_id, "baseline_consump.csv"),
                          Resample(baseline_consumption, freq)),
                    OutputPath(building_id, "retrofit_consump.csv"),
                    Resample(retrofit_consumption, freq))
    /\ UNCHANGED <<factor_tables, stove, stove_last, building_params,
                   sim_settings, pc, error, years_vec, building_id,
                   retrofit_scenario, end_uses, baseline_consumption,
                   retrofit_consumption, retrofit_vec, is_retrofit_vec,
                   annual_energy_by_fuel, building_annual_costs_other,
                   fuel_type, methane_leaks, combustion_emissions,
                   consump_rates, utility_costs>>

\* The asset types write_building_cost_info concatenates, in its order
AssetTypes == <<"stove", "clothes_dryer", "domestic_hot_water", "hvac">>

\* The cost table of write_building_cost_info: the index years_vec, the column
\* building_other_costs, and the cost table of every asset of end_uses (an
\* asset is kept as the parameters it was constructed with)
CostTable(years, other, assets) ==
    [index |-> years,
     building_other_costs |-> other,
     assets |-> [k \in 1..Len(AssetTypes) |->
                    IF AssetTypes[k] \in DOMAIN assets
                    THEN assets[AssetTypes[k]] ELSE Absent]]

\* write_building_cost_info, called on a populated building
WriteBuildingCostInfo ==
    /\ At("populated")
    /\ outputs' = ToCsv(outputs, OutputPath(building_id, "costs.csv"),
                        CostTable(years_vec, building_annual_costs_other,
                                  end_uses))
    /\ UNCHANGED <<factor_tables, stove, stove_last, building_params,
                   sim_settings, pc, error, years_vec, building_id,
                   retrofit_scenario, end_uses, baseline_consumption,
                   retrofit_consumption, retrofit_vec, is_retrofit_vec,
                   annual_energy_by_fuel, building_annual_costs_other,
                   fuel_type, methane_leaks, combustion_emissions,
                   consump_rates, utility_costs>>

-----------------------------------------------------------------------------
(* The configurations a run is constructed with *)

EndUseParam(type) ==
    [end_use |-> type, existing_install_cost |-> Absent,
     replacement_cost |-> Absent]

\* building_id and end_uses: "bldg_9" has no row in the cost tables, and no
\* retrofit cost is listed for "hvac"
EndUseSetups ==
    { [building_id |-> "bldg_1", end_uses |-> <<EndUseParam("stove")>>],
      [building_id |-> "bldg_1",
       end_uses |-> <<EndUseParam("stove"), EndUseParam("hvac")>>],
      [building_id |-> "bldg_9", end_uses |-> <<EndUseParam("stove")>>] }

\* resstock_overwrite, the two consumption files and load_scaling_factor
ConsumpConfigs ==
    { [resstock_overwrite |-> FALSE,
       reference_consump_filepath |-> "reference_gas.csv",
       retrofit_consump_filepath |-> "retrofit_elec.csv",
       load_scaling_factor |-> Absent],
      [resstock_overwrite |-> TRUE,
       reference_consump_filepath |-> "reference_gas.csv",
       retrofit_consump_filepath |-> "retrofit_elec.csv",
       load_scaling_factor |-> Absent],
      [resstock_overwrite |-> TRUE,
       reference_consump_filepath |-> "reference_gas.csv",
       retrofit_consump_filepath |-> "retrofit_hybrid.csv",
       load_scaling_factor |-> Some(2)] }

BuildingLevelCosts ==
    [retrofit_adder |-> Some(("small" :> 500) @@ ("large" :> 2000))]

\* building_level_costs and retrofit_size
CostConfigs ==
    { [building_level_costs |-> Some(BuildingLevelCosts), retrofit_size |-> Some("Large")],
      [building_level_costs |-> Some(BuildingLevelCosts), retrofit_size |-> Some("medium")],
      [building_level_costs |-> Some(BuildingLevelCosts), retrofit_size |-> Absent],
      [building_level_costs |-> Absent, retrofit_size |-> Some("Large")] }

\* original_fuel_type and retrofit_fuel_type
FuelConfigs ==
    { [original_fuel_type |-> Some("natural_gas"), retrofit_fuel_type |-> Some("electricity")],
      [original_fuel_type |-> Some("fuel_oil"), retrofit_fuel_type |-> Some("hybrid_gas")],
      [original_fuel_type |-> Absent, retrofit_fuel_type |-> Some("propane")] }

\* The cost and fuel settings drawn together: no method reads both, so each
\* cost setting is drawn with one fuel setting and each fuel setting is drawn
DrawnTogether(cc, fc) ==
    \/ /\ cc.retrofit_size = Some("Large")
       /\ fc.original_fuel_type = Some("natural_gas")
    \/ /\ cc.retrofit_size = Some("medium")
       /\ fc.original_fuel_type = Some("fuel_oil")
    \/ /\ cc.retrofit_size = Absent
       /\ fc.original_fuel_type = Absent

\* The end-use and consumption settings drawn together: the end uses are
\* built from the cost tables alone and the consumption tables are loaded
\* from the files alone, so the building of one end use is drawn without the
\* tables and with the hybrid retrofit, and the other two buildings with the
\* electric retrofit
SetUpTogether(ec, cf) ==
    IF ec.building_id = "bldg_1" /\ Len(ec.end_uses) = 1
    THEN cf.retrofit_consump_filepath = "retrofit_hybrid.csv"
         \/ ~cf.resstock_overwrite
    ELSE /\ cf.resstock_overwrite
         /\ cf.retrofit_consump_filepath = "retrofit_elec.csv"

StartYears == FirstSimYear..(FirstSimYear + StartSpan)

\* The configuration a Building is constructed with
ConfigDrawn ==
    /\ \E start \in StartYears : \E len \in 0..MaxLen :
          sim_settings = [sim_start_year |-> start,
                          sim_end_year |-> start + len,
                          decarb_scenario |-> "accelerated_elec"]
    /\ \E ec \in EndUseSetups :
       \E cf \in {c \in ConsumpConfigs : SetUpTogether(ec, c)} :
       \E cc \in CostConfigs :
       \E fc \in {f \in FuelConfigs : DrawnTogether(cc, f)} :
       \E ry \in {Absent} \cup
                 {Some(y) : y \in (sim_settings.sim_start_year - 1)..
                                  sim_settings.sim_end_year} :
          building_params =
              [building_id |-> ec.building_id,
               end_uses |-> ec.end_uses,
               resstock_overwrite |-> cf.resstock_overwrite,
               reference_consump_filepath |-> cf.reference_consump_filepath,
               retrofit_consump_filepath |-> cf.retrofit_consump_filepath,
               load_scaling_factor |-> cf.load_scaling_factor,
               building_level_costs |-> cc.building_level_costs,
               retrofit_size |-> cc.retrofit_size,
               original_fuel_type |-> fc.original_fuel_type,
               retrofit_fuel_type |-> fc.retrofit_fuel_type,
               retrofit_year |-> ry]

\* __init__ (lines 95-110): the fields of a new Building
Constructed ==
    /\ pc = "get_years_vec"
    /\ error = NoneVal
    /\ years_vec = <<>>
    /\ building_id = ""
    /\ retrofit_scenario = ""
    /\ end_uses = [t \in {} |-> Absent]
    /\ baseline_consumption = EmptyFrame
    /\ retrofit_consumption = EmptyFrame
    /\ retrofit_vec = <<>>
    /\ is_retrofit_vec = <<>>
    /\ annual_energy_by_fuel = [f \in {} |-> <<>>]
    /\ building_annual_costs_other = <<>>
    /\ fuel_type = <<>>
    /\ methane_leaks = <<>>
    /\ combustion_emissions = [f \in {} |-> <<>>]
    /\ consump_rates = [f \in {} |-> <<>>]
    /\ utility_costs = [f \in {} |-> <<>>]

-----------------------------------------------------------------------------
(* The Stove end use (end_uses/building_end_uses/stove.py). Its methods are   *)
(* modelled from the specification's section 4.1 and pinned to the values of  *)
(* tests/test_stove.py; amounts are whole currency units and escalator is in  *)
(* percent.                                                                   *)

\* The longest years_vec a Stove is constructed with.
StoveMaxLen == 5

\* The first simulation year of the Stove's years_vec (test_stove.py line 23)
StoveFirstYear == 2020

\* kwargs.get("replacement_year", years_vec[-1]): an absent replacement year
\* falls back to the last simulation year
StoveReplacementYear(years, kwargs) ==
    Get(kwargs.replacement_year, years[Len(years)])

\* _get_replacement_vec
StoveReplacementVec(years, kwargs) ==
    [i \in 1..Len(years) |-> years[i] = StoveReplacementYear(years, kwargs)]

\* Linear depreciation: cost * (1 - age / lifetime)
Depreciated(cost, age, lifetime) == (cost * (lifetime - age)) \div lifetime

\* A variant of _get_existing_book_val that does not clamp at 0
StoveExistingBookVal_NoClamp(years, kwargs) ==
    [i \in 1..Len(years) |->
        IF kwargs.replacement_year # Absent
           /\ years[i] >= kwargs.replacement_year[1]
        THEN 0
        ELSE Depreciated(kwargs.existing_install_cost,
                         years[i] - kwargs.existing_install_year,
                         kwargs.lifetime)]

\* _get_existing_book_val: 0 from the configured replacement year on, else the
\* depreciated install cost clamped at 0. With no replacement_year in kwargs
\* nothing is cut off (test_get_existing_book_val: 75 in the last year).
StoveExistingBookVal(years, kwargs) ==
    [i \in 1..Len(years) |->
        IF kwargs.replacement_year # Absent
           /\ years[i] >= kwargs.replacement_year[1]
        THEN 0
        ELSE Max(0, Depreciated(kwargs.existing_install_cost,
                                years[i] - kwargs.existing_install_year,
                                kwargs.lifetime))]

\* A variant of _get_existing_stranded_val that strands the book value in
\* every year from the replacement on
StoveExistingStrandedVal_FromYearOn(book, rvec) ==
    [i \in 1..Len(book) |-> IF MaxPrefix(rvec, i) THEN book[i] ELSE 0]

\* _get_existing_stranded_val: the book value where the replacement vector is
\* true, 0 elsewhere
StoveExistingStrandedVal(book, rvec) ==
    [i \in 1..Len(book) |-> IF rvec[i] THEN book[i] ELSE 0]

RECURSIVE Escalate(_, _, _)
\* cost * (1 + pct/100)^periods
Escalate(cost, pct, periods) ==
    IF periods <= 0 THEN cost
    ELSE Escalate((cost * (100 + pct)) \div 100, pct, periods - 1)

\* The escalation periods applied at the replacement event
EscalationPeriods == 1

\* A variant of _get_replacement_cost that compounds the escalator from the
\* first simulation year to the replacement year
StoveReplacementCost_FromFirstYear(years, kwargs) ==
    [i \in 1..Len(years) |->
        IF years[i] = StoveReplacementYear(years, kwargs)
        THEN Escalate(kwargs.replacement_cost, kwargs.escalator,
                      years[i] - years[1])
        ELSE 0]

\* _get_replacement_cost: the escalated replacement cost in the replacement
\* year, 0 elsewhere
StoveReplacementCost(years, kwargs) ==
    [i \in 1..Len(years) |->
        IF years[i] = StoveReplacementYear(years, kwargs)
        THEN Escalate(kwargs.replacement_cost, kwargs.escalator,
                      EscalationPeriods)
        ELSE 0]

\* The index of the replacement year in years_vec, 0 when it lies outside
StoveReplacementIndex(years, kwargs) ==
    IF \E i \in 1..Len(years) : years[i] = StoveReplacementYear(years, kwargs)
    THEN CHOOSE i \in 1..Len(years) :
            years[i] = StoveReplacementYear(years, kwargs)
    ELSE 0

\* replacement_cost_vec[replacement_year]: the cost at the replacement year,
\* none when that year is not simulated
StoveCostAtReplacement(years, kwargs, cost) ==
    IF StoveReplacementIndex(years, kwargs) = 0 THEN 0
    ELSE cost[StoveReplacementIndex(years, kwargs)]

\* A variant of _get_replacement_book_value whose depreciation begins in the
\* replacement year itself
StoveReplacementBookValue_DropAtOnce(years, kwargs, cost) ==
    [i \in 1..Len(years) |->
        IF years[i] < StoveReplacementYear(years, kwargs) THEN 0
        ELSE IF Get(kwargs.replacement_lifetime, 0) = 0 THEN 0
        ELSE Max(0, Depreciated(StoveCostAtReplacement(years, kwargs, cost),
                                years[i] + 1
                                    - StoveReplacementYear(years, kwargs),
                                kwargs.replacement_lifetime[1]))]

\* _get_replacement_book_value: 0 before the replacement year; from it on the
\* cost at the replacement year depreciated linearly over replacement_lifetime
\* and clamped at 0; a lifetime of 0 or none is full depreciation at once
StoveReplacementBookValue(years, kwargs, cost) ==
    [i \in 1..Len(years) |->
        IF years[i] < StoveReplacementYear(years, kwargs) THEN 0
        ELSE IF Get(kwargs.replacement_lifetime, 0) = 0 THEN 0
        ELSE Max(0, Depreciated(StoveCostAtReplacement(years, kwargs, cost),
                                years[i] - StoveReplacementYear(years, kwargs),
                                kwargs.replacement_lifetime[1]))]

\* The book values test_get_existing_stranded_val assigns to the field
\* (line 83), cut to the Stove's years_vec
BookValFixture(len) == [i \in 1..len |-> Max(0, 600 - 100 * i)]

\* The costs test_get_replacement_book_value assigns to the field (line 104),
\* cut to the Stove's years_vec
CostFixture(len) == [i \in 1..len |-> IF i = 4 THEN 1200 ELSE 0]

\* The keyword arguments a Stove is constructed with
StoveKwargs(len) ==
    [existing_install_year : {2015},
     lifetime : {5, 10},
     existing_install_cost : {750, 1000},
     replacement_cost : {1000},
     escalator : {0, 10},
     replacement_lifetime : {Absent, Some(0), Some(2), Some(5)},
     replacement_year :
        {Absent} \cup {Some(y) : y \in {StoveFirstYear - 1, StoveFirstYear,
                                        StoveFirstYear + 3,
                                        StoveFirstYear + len}}]

\* setUp of TestStove: a Stove on years_vec with its kwargs; a test may then
\* assign existing_book_val or replacement_cost by hand
StoveConstructed ==
    /\ \E len \in 1..StoveMaxLen :
       \E kw \in StoveKwargs(len) :
       \E book \in {<<>>, BookValFixture(len)} :
       \E cost \in {<<>>, CostFixture(len)} :
          stove = [years_vec |-> Range(StoveFirstYear, StoveFirstYear + len),
                   kwargs |-> kw,
                   existing_book_val |-> book,
                   replacement_vec |-> <<>>,
                   existing_stranded_val |-> <<>>,
                   replacement_cost |-> cost,
                   replacement_book_val |-> <<>>]
    /\ stove_last = ""

StoveGetReplacementVec ==
    /\ stove' = [stove EXCEPT !.replacement_vec =
                    StoveReplacementVec(stove.years_vec, stove.kwargs)]
    /\ stove_last' = "_get_replacement_vec"
    /\ UNCHANGED bvars

StoveGetExistingBookVal ==
    /\ stove' = [stove EXCEPT !.existing_book_val =
                    StoveExistingBookVal(stove.years_vec, stove.kwargs)]
    /\ stove_last' = "_get_existing_book_val"
    /\ UNCHANGED bvars

\* _get_existing_stranded_val reads the two fields, one value per year each
StoveGetExistingStrandedVal ==
    /\ Len(stove.existing_book_val) = Len(stove.years_vec)
    /\ Len(stove.replacement_vec) = Len(stove.years_vec)
    /\ stove' = [stove EXCEPT !.existing_stranded_val =
                    StoveExistingStrandedVal(stove.existing_book_val,
                                             stove.replacement_vec)]
    /\ stove_last' = "_get_existing_stranded_val"
    /\ UNCHANGED bvars

StoveGetReplacementCost ==
    /\ stove' = [stove EXCEPT !.replacement_cost =
                    StoveReplacementCost(stove.years_vec, stove.kwargs)]
    /\ stove_last' = "_get_replacement_cost"
    /\ UNCHANGED bvars

\* _get_replacement_book_value reads the replacement_cost field, one value
\* per year
StoveGetReplacementBookValue ==
    /\ Len(stove.replacement_cost) = Len(stove.years_vec)
    /\ stove' = [stove EXCEPT !.replacement_book_val =
                    StoveReplacementBookValue(stove.years_vec, stove.kwargs,
                                              stove.replacement_cost)]
    /\ stove_last' = "_get_replacement_book_value"
    /\ UNCHANGED bvars

\* A building of the default configuration, for the runs of the Stove alone
DefaultConfig ==
    /\ sim_settings = [sim_start_year |-> FirstSimYear,
                       sim_end_year |-> FirstSimYear + MaxLen,
                       decarb_scenario |-> "accelerated_elec"]
    /\ building_params =
           [building_id |-> "bldg_1",
            end_uses |-> <<EndUseParam("stove")>>,
            resstock_overwrite |-> TRUE,
            reference_consump_filepath |-> "reference_gas.csv",
            retrofit_consump_filepath |-> "retrofit_elec.csv",
            load_scaling_factor |-> Absent,
            building_level_costs |-> Absent,
            retrofit_size |-> Absent,
            original_fuel_type |-> Some("natural_gas"),
            retrofit_fuel_type |-> Some("electricity"),
            retrofit_year |-> Absent]

\* No Stove under test: the Stove of the building runs
StoveIdle ==
    /\ stove = [years_vec |-> <<>>,
                kwargs |-> <<>>,
                existing_book_val |-> <<>>,
                replacement_vec |-> <<>>,
                existing_stranded_val |-> <<>>,
                replacement_cost |-> <<>>,
                replacement_book_val |-> <<>>]
    /\ stove_last = ""

\* The module is imported and ./outputs/ holds no file
ModuleLoaded ==
    /\ factor_tables = [EMISSION_FACTORS |-> EMISSION_FACTORS,
                        METHANE_LEAKS |-> METHANE_LEAKS]
    /\ outputs = [q \in {} |-> EmptyFrame]

Init == ModuleLoaded /\ ConfigDrawn /\ Constructed /\ StoveIdle

InitStove == ModuleLoaded /\ DefaultConfig /\ Constructed /\ StoveConstructed

Next ==
    \/ GetYearsVec
    \/ GetBuildingId
    \/ GetRetrofitScenario
    \/ GetBuildingEnergies
    \/ CreateEndUses
    \/ CalcTotalEnergyBaseline
    \/ CalcTotalEnergyRetrofit
    \/ GetReplacementVecStep
    \/ GetIsRetrofitVecStep
    \/ CalcAnnualEnergyConsumpStep
    \/ CalcBuildingCostsStep
    \/ GetFuelTypeVecStep
    \/ GetMethaneLeaksStep
    \/ GetCombustionEmissionsStep
    \/ CalcBuildingUtilityCosts
    \/ WriteBuildingEnergyInfo
    \/ WriteBuildingCostInfo

Spec == Init /\ [][Next]_vars

\* The Stove methods, called in any order on a constructed Stove
NextStove ==
    \/ StoveGetReplacementVec
    \/ StoveGetExistingBookVal
    \/ StoveGetExistingStrandedVal
    \/ StoveGetReplacementCost
    \/ StoveGetReplacementBookValue

SpecStove == InitStove /\ [][NextStove]_vars


-----------------------------------------------------------------------------
(* Properties of Building *)

\* The configured retrofit year; an absent year counts as the last simulation
\* year. Read only where years_vec is not empty.
ConfiguredYear ==
    IF building_params.retrofit_year = Absent
    THEN years_vec[Len(years_vec)]
    ELSE building_params.retrofit_year[1]

YearIndexes == 1..Len(years_vec)

C2_ReplacementVecPoint ==
    /\ Ran("get_replacement_vec") =>
          /\ years_vec # <<>>
          /\ Len(retrofit_vec) = Len(years_vec)
          /\ \A i \in YearIndexes :
                retrofit_vec[i] <=> (years_vec[i] = ConfiguredYear)
          /\ Cardinality({i \in YearIndexes : retrofit_vec[i]}) =
                IF \E i \in YearIndexes : years_vec[i] = ConfiguredYear
                THEN 1 ELSE 0
    /\ (pc = "get_replacement_vec" /\ error # NoneVal) => years_vec = <<>>

\* C2 witness: a replacement vector with its one true entry inside the horizon
\* and false entries on both sides of it
C2_Witness ==
    /\ Ran("get_replacement_vec")
    /\ Len(retrofit_vec) >= 3
    /\ retrofit_vec[2]
    /\ ~retrofit_vec[1]
    /\ ~retrofit_vec[3]

\* C2 second witness state: a year before the horizon gives an all-false vector
C2_OutsideReached ==
    /\ Ran("get_replacement_vec")
    /\ building_params.retrofit_year # Absent
    /\ building_params.retrofit_year[1] < years_vec[1]
    /\ \A i \in YearIndexes : ~retrofit_vec[i]

\* The annual sum of a per-fuel total column of the table the claim puts in
\* force in a year: the baseline table before the configured year, the
\* retrofit table at or after it
ClaimedAnnual(fuel, i) ==
    IF years_vec[i] < ConfiguredYear
    THEN AnnualFirst(baseline_consumption, TotalCol(fuel))
    ELSE AnnualFirst(retrofit_consumption, TotalCol(fuel))

\* C3: once _calc_annual_energy_consump has run, each fuel's sequence has
\* len(years_vec) entries and entry i is the annual sum of the baseline
\* table's per-fuel total when years_vec[i] is before the retrofit year and of
\* the retrofit table's when it is at or after it.
C3_AnnualEnergyByYear ==
    Ran("calc_annual_energy_consump") =>
        \A fuel \in FuelSet :
            /\ Len(annual_energy_by_fuel[fuel]) = Len(years_vec)
            /\ \A i \in YearIndexes :
                  annual_energy_by_fuel[fuel][i] = ClaimedAnnual(fuel, i)

\* What C3 says holds of the code for every retrofit year that is not before
\* the first simulation year
C3_FromFirstYearOn ==
    (Ran("calc_annual_energy_consump") /\ ConfiguredYear >= years_vec[1]) =>
        \A fuel \in FuelSet :
            /\ Len(annual_energy_by_fuel[fuel]) = Len(years_vec)
            /\ \A i \in YearIndexes :
                  annual_energy_by_fuel[fuel][i] = ClaimedAnnual(fuel, i)

\* The table in force in the year at index i
InForce(i) ==
    IF is_retrofit_vec[i] THEN retrofit_consumption ELSE baseline_consumption

\* The source sub-columns of a fuel: the table's columns out.<fuel>.<use>...
\* other than the total the program adds
SourceCols(frame, fuel) ==
    {c \in DOMAIN frame.cols :
        Len(c) >= 2 /\ c[1] = "out" /\ c[2] = fuel /\ c # TotalCol(fuel)}

RECURSIVE SumFuels(_, _)
\* the sum over the fuels in fs of their annual energy at index i
SumFuels(fs, i) ==
    IF fs = {} THEN 0
    ELSE LET f == CHOOSE x \in fs : TRUE
         IN  annual_energy_by_fuel[f][i] + SumFuels(fs \ {f}, i)

\* C4: once _calc_annual_energy_consump has run, in every simulation year the
\* four fuels' annual energies add up to the annual sum of the grand-total
\* column of the table in force that year, and in both tables every per-fuel
\* total is the row-by-row sum of exactly that fuel's source sub-columns.
C4_FuelsSumToGrandTotal ==
    Ran("calc_annual_energy_consump") =>
        /\ \A i \in YearIndexes :
              SumFuels(FuelSet, i) = AnnualFirst(InForce(i), GrandTotalCol)
        /\ \A frame \in {baseline_consumption, retrofit_consumption} :
           \A fuel \in FuelSet :
              frame.cols[TotalCol(fuel)] =
                  RowSum(frame, SourceCols(frame, fuel))

\* C4 witness: a populated building with a baseline year and a retrofit year,
\* both with energy, whose retrofit table has fuel_oil consumption
C4_Witness ==
    /\ At("populated")
    /\ Len(is_retrofit_vec) >= 2
    /\ ~is_retrofit_vec[1]
    /\ is_retrofit_vec[Len(is_retrofit_vec)]
    /\ SumFuels(FuelSet, 1) > 0
    /\ annual_energy_by_fuel["fuel_oil"][Len(is_retrofit_vec)] > 0

\* The code of a configured fuel type
FuelCode(opt) == FuelMappings(IF opt = Absent THEN NoneVal ELSE opt[1])

\* C5: once _get_fuel_type_vec has run, fuel_type[y] is the code of
\* original_fuel_type when y is before the retrofit year and the code of
\* retrofit_fuel_type when y is at or after it, for a retrofit year inside
\* the horizon, before its first year or after its last year.
C5_FuelTypeByYear ==
    Ran("get_fuel_type_vec") =>
        /\ Len(fuel_type) = Len(years_vec)
        /\ \A i \in YearIndexes :
              fuel_type[i] =
                  IF years_vec[i] < ConfiguredYear
                  THEN FuelCode(building_params.original_fuel_type)
                  ELSE FuelCode(building_params.retrofit_fuel_type)

\* What C5 says holds of the code for every retrofit year that is not before
\* the first simulation year
C5_FromFirstYearOn ==
    (Ran("get_fuel_type_vec") /\ ConfiguredYear >= years_vec[1]) =>
        /\ Len(fuel_type) = Len(years_vec)
        /\ \A i \in YearIndexes :
              fuel_type[i] =
                  IF years_vec[i] < ConfiguredYear
                  THEN FuelCode(building_params.original_fuel_type)
                  ELSE FuelCode(building_params.retrofit_fuel_type)

\* calc_building_utility_costs has returned
CostsReturned == DOMAIN consump_rates = FuelSet

\* C6 as stated: the returned sequences have one entry per simulation year,
\* entry i being annual_energy_by_fuel[fuel][i] times rate row i, whatever
\* the number of rows of the rate table.
C6_CostsAlignedToYears ==
    CostsReturned =>
        \A fuel \in FuelSet :
            /\ Len(utility_costs[fuel]) = Len(years_vec)
            /\ \A i \in YearIndexes :
                  utility_costs[fuel][i] =
                      annual_energy_by_fuel[fuel][i] * consump_rates[fuel][i]

\* C6 amended: the returned sequences have min(len(years_vec), rate rows)
\* entries, entry i being annual_energy_by_fuel[fuel][i] times rate row i; so
\* they are aligned to years_vec exactly when the rate table has at least
\* len(years_vec) rows.
C6_CostsUpToShorter ==
    CostsReturned =>
        \A fuel \in FuelSet :
            /\ Len(utility_costs[fuel]) =
                  IF Len(consump_rates[fuel]) < Len(years_vec)
                  THEN Len(consump_rates[fuel]) ELSE Len(years_vec)
            /\ \A i \in 1..Len(utility_costs[fuel]) :
                  utility_costs[fuel][i] =
                      annual_energy_by_fuel[fuel][i] * consump_rates[fuel][i]
            /\ (Len(consump_rates[fuel]) >= Len(years_vec)) =>
                  Len(utility_costs[fuel]) = Len(years_vec)

\* C6 witness: costs returned for a rate table with fewer rows than years_vec,
\* at least two of them priced, over baseline and retrofit years
C6_Witness ==
    /\ CostsReturned
    /\ Len(consump_rates["electricity"]) < Len(years_vec)
    /\ Len(utility_costs["electricity"]) >= 2
    /\ ~is_retrofit_vec[1]
    /\ is_retrofit_vec[2]
    /\ utility_costs["electricity"][2] > 0

\* The adder configured for the building's size category (matched in lower
\* case), 0 when none is
ConfiguredAdder ==
    IF building_params.building_level_costs = Absent
       \/ building_params.retrofit_size = Absent
    THEN 0
    ELSE LET adders == building_params.building_level_costs[1].retrofit_adder[1]
             size   == Lower(building_params.retrofit_size[1])
         IN  IF size \in DOMAIN adders THEN adders[size] ELSE 0

\* C7: once _calc_building_costs has run, the building-level cost sequence has
\* one entry per simulation year: the size category's retrofit adder at the
\* index of the exact retrofit year and 0 at every other index, so all zero
\* when the retrofit year is outside years_vec or no adder is configured.
C7_AdderInRetrofitYearOnly ==
    Ran("calc_building_costs") =>
        /\ Len(building_annual_costs_other) = Len(years_vec)
        /\ \A i \in YearIndexes :
              building_annual_costs_other[i] =
                  IF years_vec[i] = ConfiguredYear THEN ConfiguredAdder ELSE 0

\* C7 witness: the adder charged once, inside the horizon, with later years
\* free of it
C7_Witness ==
    /\ Ran("calc_building_costs")
    /\ Len(building_annual_costs_other) >= 3
    /\ building_annual_costs_other[2] = 2000
    /\ building_annual_costs_other[1] = 0
    /\ building_annual_costs_other[3] = 0


-----------------------------------------------------------------------------
(* Properties of the Stove end use *)

StoveIndexes == 1..Len(stove.years_vec)

\* The years_vec of TestStove.setUp
TestYears == <<2020, 2021, 2022, 2023, 2024>>

\* The replacement year the Stove acts on; an absent one counts as the last
\* simulation year
StoveYear ==
    IF stove.kwargs.replacement_year = Absent
    THEN stove.years_vec[Len(stove.years_vec)]
    ELSE stove.kwargs.replacement_year[1]

\* The kwargs name a replacement year and the year y is at or after it
Replaced(y) ==
    /\ stove.kwargs.replacement_year # Absent
    /\ y >= stove.kwargs.replacement_year[1]

C8_CutReached ==
    /\ stove_last = "_get_existing_book_val"
    /\ \E i \in StoveIndexes :
          /\ i > 1
          /\ Replaced(stove.years_vec[i])
          /\ stove.existing_book_val[i - 1] > 0
    /\ stove.kwargs.lifetime = 10

\* C9: after _get_existing_stranded_val, for every year y the stranded value
\* is existing_book_val[y] when replacement_vec[y] is true and 0 otherwise, so
\* it can be nonzero only in the exact replacement year; book value
\* [500, 400, 300, 200, 100] replaced in 2023 gives [0, 0, 0, 200, 0].
C9_StrandedOnlyAtReplacement ==
    stove_last = "_get_existing_stranded_val" =>
        LET sv == stove.existing_stranded_val
        IN  /\ Len(sv) = Len(stove.years_vec)
            /\ \A i \in StoveIndexes :
                  /\ stove.replacement_vec[i] =>
                        sv[i] = stove.existing_book_val[i]
                  /\ ~stove.replacement_vec[i] => sv[i] = 0
                  /\ sv[i] # 0 => stove.years_vec[i] = StoveYear
            /\ ( /\ stove.years_vec = TestYears
                 /\ stove.existing_book_val = <<500, 400, 300, 200, 100>>
                 /\ stove.kwargs.replacement_year = Some(2023) ) =>
                  sv = <<0, 0, 0, 200, 0>>

\* C9 witness: the stranded values of test_get_existing_stranded_val, computed
C9_Witness ==
    /\ stove_last = "_get_existing_stranded_val"
    /\ stove.existing_book_val = <<500, 400, 300, 200, 100>>
    /\ stove.existing_stranded_val = <<0, 0, 0, 200, 0>>

RECURSIVE Pow(_, _)
Pow(b, n) == IF n = 0 THEN 1 ELSE b * Pow(b, n - 1)

\* The base year the escalation of C10 counts from: the year before the
\* replacement, which makes replacement_year - base_year the one period the
\* claim and test_get_replacement_cost state
BaseYear(replacementYear) == replacementYear - 1

\* C10: after _get_replacement_cost, the replacement cost sequence is 0 at
\* every index other than the replacement year's and there equals
\* replacement_cost * (1 + escalator)^(replacement_year - base_year), one
\* escalation period; it is all zero when the replacement year is outside
\* years_vec; replacement_cost 1000, replacement_year 2023, escalator 0.1 over
\* 2020..2024 give [0, 0, 0, 1100, 0].
C10_ReplacementCostOnePeriod ==
    stove_last = "_get_replacement_cost" =>
        LET kw      == stove.kwargs
            rc      == stove.replacement_cost
            periods == StoveYear - BaseYear(StoveYear)
        IN  /\ Len(rc) = Len(stove.years_vec)
            /\ \A i \in StoveIndexes :
                  /\ stove.years_vec[i] # StoveYear => rc[i] = 0
                  /\ stove.years_vec[i] = StoveYear =>
                        rc[i] * Pow(100, periods) =
                            kw.replacement_cost * Pow(100 + kw.escalator, periods)
            /\ (\A i \in StoveIndexes : stove.years_vec[i] # StoveYear) =>
                  \A i \in StoveIndexes : rc[i] = 0
            /\ ( /\ stove.years_vec = TestYears
                 /\ kw.replacement_cost = 1000
                 /\ kw.replacement_year = Some(2023)
                 /\ kw.escalator = 10 ) =>
                  rc = <<0, 0, 0, 1100, 0>>

\* C10 witness: the replacement costs of test_get_replacement_cost, computed
C10_Witness ==
    /\ stove_last = "_get_replacement_cost"
    /\ stove.kwargs.escalator = 10
    /\ stove.replacement_cost = <<0, 0, 0, 1100, 0>>

\* The cost the claim depreciates: the entry of the replacement cost sequence
\* at the replacement year
CostAtReplacementYear ==
    SumSeq([i \in StoveIndexes |->
               IF stove.years_vec[i] = StoveYear
               THEN stove.replacement_cost[i] ELSE 0])

\* The replacement year is one of the simulated years
ReplacementSimulated ==
    \E i \in StoveIndexes : stove.years_vec[i] = StoveYear

\* The replacement lifetime of the kwargs, 0 when there is none
ReplacementLifetime == Get(stove.kwargs.replacement_lifetime, 0)

\* C11: after _get_replacement_book_value, with the replacement year in
\* years_vec, the replacement book value has one entry per year, is 0 before
\* the replacement year, and from it on equals
\* max(0, C * (1 - (y - replacement_year) / replacement_lifetime)) with C the
\* replacement cost at the replacement year, so it is C in the replacement
\* year; with a lifetime of 0 or none it is 0 from the replacement year on;
\* costs [0, 0, 0, 1200, 0] with lifetime 5 and replacement in 2023 give
\* [0, 0, 0, 1200, 960].
C11_ReplacementBookValLinear ==
    (stove_last = "_get_replacement_book_value" /\ ReplacementSimulated) =>
        LET rbv == stove.replacement_book_val
            L   == ReplacementLifetime
            C   == CostAtReplacementYear
        IN  /\ Len(rbv) = Len(stove.years_vec)
            /\ \A i \in StoveIndexes :
                  LET age == stove.years_vec[i] - StoveYear
                  IN  /\ age < 0 => rbv[i] = 0
                      /\ (age >= 0 /\ L = 0) => rbv[i] = 0
                      /\ (age >= 0 /\ L > 0) =>
                            rbv[i] * L = Max(0, C * (L - age))
                      /\ (age = 0 /\ L > 0) => rbv[i] = C
            /\ ( /\ stove.years_vec = TestYears
                 /\ stove.replacement_cost = <<0, 0, 0, 1200, 0>>
                 /\ stove.kwargs.replacement_year = Some(2023)
                 /\ L = 5 ) =>
                  rbv = <<0, 0, 0, 1200, 960>>

\* C11 witness: the book values of test_get_replacement_book_value, computed
C11_Witness ==
    /\ stove_last = "_get_replacement_book_value"
    /\ stove.replacement_cost = <<0, 0, 0, 1200, 0>>
    /\ stove.replacement_book_val = <<0, 0, 0, 1200, 960>>

\* A nonzero replacement cost with a lifetime of 0 or none is written off at
\* once
C11_NoLifetimeReached ==
    ~( /\ stove_last = "_get_replacement_book_value"
       /\ ReplacementSimulated
       /\ CostAtReplacementYear > 0
       /\ ReplacementLifetime = 0
       /\ \A i \in StoveIndexes : stove.replacement_book_val[i] = 0 )

-----------------------------------------------------------------------------
(* Missing cost inputs *)

\* The configured building has no row in one of the two cost tables
CostRowMissing ==
    \/ building_params.building_id \notin DOMAIN CostsOriginal
    \/ building_params.building_id \notin DOMAIN CostsRetrofit

\* The building has both rows, and one of them has no entry for a configured
\* end use
CostEntryMissing ==
    /\ ~CostRowMissing
    /\ \E k \in 1..Len(building_params.end_uses) :
          LET key == Upper(building_params.end_uses[k].end_use)
          IN  \/ key \notin DOMAIN CostsOriginal[building_params.building_id]
              \/ key \notin DOMAIN CostsRetrofit[building_params.building_id]

\* No asset of end_uses holds a None cost
NoAssetWithNoneCost ==
    \A t \in DOMAIN end_uses :
        end_uses[t] # Absent =>
            /\ end_uses[t][1].existing_install_cost # Absent
            /\ end_uses[t][1].replacement_cost # Absent

\* C12: with a required cost input missing (no row of the building in a cost
\* table, or no entry of a configured end use in its row), the line
\* _create_end_uses never runs to its end, so no later line of
\* populate_building runs, and no asset of end_uses holds a None cost.
C12_MissingCostFailsAtConstruction ==
    (CostRowMissing \/ CostEntryMissing) =>
        /\ ~Ran("create_end_uses")
        /\ NoAssetWithNoneCost

\* The part of C12 the code keeps: a building with no row in a cost table ends
\* populate_building at _create_end_uses with no asset in end_uses
C12_MissingRowFails ==
    CostRowMissing =>
        /\ ~Ran("create_end_uses")
        /\ DOMAIN end_uses = {}

\* A building with no row in a cost table has failed at _create_end_uses
C12_MissingRowReached ==
    ~( /\ CostRowMissing
       /\ pc = "create_end_uses"
       /\ error = "AttributeError" )

-----------------------------------------------------------------------------
(* Read and export operations *)

\* Every field of the building
BuildingFields ==
    <<building_params, years_vec, building_id, retrofit_scenario, end_uses,
      baseline_consumption, retrofit_consumption, retrofit_vec,
      is_retrofit_vec, annual_energy_by_fuel, building_annual_costs_other,
      fuel_type, methane_leaks, combustion_emissions>>

\* C13: a step taken once populate_building has completed (a call of
\* calc_building_utility_costs, write_building_energy_info or
\* write_building_cost_info) leaves every field of the building unchanged, and
\* no step of any operation changes EMISSION_FACTORS or METHANE_LEAKS.
C13_ReadOnlyAfterPopulate ==
    [][ /\ At("populated") => UNCHANGED BuildingFields
        /\ UNCHANGED factor_tables ]_vars

\* C13 witness: a populated building after all three read/export operations,
\* its tables still holding their per-fuel totals
C13_Witness ==
    /\ At("populated")
    /\ DOMAIN utility_costs = FuelSet
    /\ OutputPath(building_id, "baseline_consump.csv") \in DOMAIN outputs
    /\ OutputPath(building_id, "costs.csv") \in DOMAIN outputs
    /\ Len(years_vec) >= 2
    /\ HasCol(baseline_consumption, GrandTotalCol)
    /\ Len(outputs[OutputPath(building_id, "baseline_consump.csv")].stamps)
          < Len(baseline_consumption.stamps)

-----------------------------------------------------------------------------
(* Electricity emission factors *)

\* The first index of years_vec whose year is DecayFromYear or later, 0 when
\* there is none
FirstDecayIndex ==
    IF \E i \in YearIndexes : years_vec[i] >= DecayFromYear
    THEN CHOOSE i \in YearIndexes :
            /\ years_vec[i] >= DecayFromYear
            /\ \A j \in 1..(i - 1) : years_vec[j] < DecayFromYear
    ELSE 0

\* The electricity factor the claim gives index i: the constant before
\* DecayFromYear and at the first index from it on, 0.97 times the previous
\* index's at every later one
ClaimedElecFactor(i) ==
    IF years_vec[i] < DecayFromYear
    THEN ConstFactor("electricity")
    ELSE [base |-> "electricity", decays |-> i - FirstDecayIndex,
          zero |-> FALSE]

\* C14: once _get_combustion_emissions has run, electricity emissions at
\* index i are the annual electricity energy at i times a factor that is the
\* constant at every index before 2024 and at the first index of 2024 or
\* later, and 0.97 times the previous index's factor at every later index,
\* for every years_vec, one that starts in 2024 or later included.
C14_ElecFactorAnchored ==
    Ran("get_combustion_emissions") =>
        /\ Len(combustion_emissions["electricity"]) = Len(years_vec)
        /\ \A i \in YearIndexes :
              /\ combustion_emissions["electricity"][i].energy =
                    annual_energy_by_fuel["electricity"][i]
              /\ combustion_emissions["electricity"][i].factor =
                    ClaimedElecFactor(i)

\* What the code computes: the constant before 2024; from 2024 on 0.97 times
\* the previous slot, so the first index of 2024 or later already carries one
\* decay, and a years_vec that starts in 2024 or later reads the zero of the
\* last slot and has a factor of 0 throughout
C14_DecaysFromPreviousSlot ==
    Ran("get_combustion_emissions") =>
        \A i \in YearIndexes :
            LET f == combustion_emissions["electricity"][i].factor
            IN  /\ years_vec[i] < DecayFromYear =>
                      f = ConstFactor("electricity")
                /\ (years_vec[i] >= DecayFromYear /\ FirstDecayIndex > 1) =>
                      f = [base |-> "electricity",
                           decays |-> i - FirstDecayIndex + 1, zero |-> FALSE]
                /\ FirstDecayIndex = 1 => f = ZeroFactor("electricity")

\* A populated building whose years_vec starts in 2024 or later
C14_ZeroFactorReached ==
    ~( /\ At("populated")
       /\ Len(years_vec) >= 2
       /\ years_vec[1] >= DecayFromYear
       /\ combustion_emissions["electricity"][2].factor.zero )

-----------------------------------------------------------------------------
(* The pass of populate_building *)

\* A table holds its four per-fuel totals and the grand total
TotalsPresent(frame) ==
    /\ frame.stamps # <<>>
    /\ HasCol(frame, GrandTotalCol)
    /\ \A fuel \in FuelSet : HasCol(frame, TotalCol(fuel))

\* A field computed by a line that has run has one entry per simulation year
PerYear(field) == Len(field) = Len(years_vec)

\* Every field a line that has run to its end has read was computed before
InputsPresent ==
    /\ Ran("get_replacement_vec") => years_vec # <<>> /\ PerYear(retrofit_vec)
    /\ Ran("get_is_retrofit_vec") =>
          PerYear(retrofit_vec) /\ PerYear(is_retrofit_vec)
    /\ Ran("calc_annual_energy_consump") =>
          /\ TotalsPresent(baseline_consumption)
          /\ TotalsPresent(retrofit_consumption)
          /\ PerYear(is_retrofit_vec)
          /\ \A fuel \in FuelSet : PerYear(annual_energy_by_fuel[fuel])
    /\ Ran("calc_building_costs") =>
          PerYear(retrofit_vec) /\ PerYear(building_annual_costs_other)
    /\ Ran("get_fuel_type_vec") =>
          PerYear(is_retrofit_vec) /\ PerYear(fuel_type)
    /\ Ran("get_methane_leaks") =>
          PerYear(fuel_type) /\ PerYear(methane_leaks)
    /\ Ran("get_combustion_emissions") =>
          \A fuel \in FuelSet :
              /\ PerYear(annual_energy_by_fuel[fuel])
              /\ PerYear(combustion_emissions[fuel])

\* The output of every stage is there
AllOutputsPresent ==
    /\ years_vec # <<>>
    /\ building_id = building_params.building_id
    /\ retrofit_scenario = sim_settings.decarb_scenario
    /\ \A k \in 1..Len(building_params.end_uses) :
          building_params.end_uses[k].end_use \in DOMAIN end_uses
    /\ TotalsPresent(baseline_consumption)
    /\ TotalsPresent(retrofit_consumption)
    /\ InputsPresent

\* C15: populate_building is one forward pass: a step that moves it moves it
\* to the next stage, after an exception no line runs, every line that has
\* run found the fields it reads computed (retrofit_vec before is_retrofit_vec
\* and building costs; per-fuel totals and is_retrofit_vec before annual
\* energy; is_retrofit_vec before fuel_type; fuel_type before methane leaks;
\* annual energy before combustion emissions), and the exportable state is
\* reached only with the output of every stage present.
C15_SingleForwardPass ==
    [][ /\ pc' # pc => /\ error = NoneVal
                       /\ StageNo(pc') = StageNo(pc) + 1
        /\ error # NoneVal => UNCHANGED <<pc, error, BuildingFields>>
        /\ InputsPresent'
        /\ At("populated")' => AllOutputsPresent' ]_vars

\* C15 witness: a building that has passed every stage, over several years
C15_Witness ==
    /\ At("populated")
    /\ AllOutputsPresent
    /\ Len(years_vec) >= 2
    /\ DOMAIN end_uses = {"stove", "hvac"}

\* A run that an exception ended stays at the line that raised
C15_FailedReached ==
    ~( /\ pc = "calc_annual_energy_consump"
       /\ error = "KeyError"
       /\ ~TotalsPresent(baseline_consumption) )

=============================================================================
